---- MODULE Spec2Model ----
(***************************************************************************)
(* A model of the apprise configuration layer:                             *)
(*   apprise/AppriseConfig.py      (AppriseConfig: add, services, clear,   *)
(*                                  instantiate)                           *)
(*   apprise/config/ConfigBase.py  (ConfigBase: __init__, services,        *)
(*                                  parse_url, config_parse_text/_yaml)    *)
(*   apprise/config/ConfigFile.py  (NotifyFile: __init__, read)            *)
(*                                                                         *)
(* Strings are sequences of one-character strings, so that the regular     *)
(* expressions, the '/#' replacement, the schema lower-casing and the      *)
(* 'file://' concatenation are computed rather than assumed.  The words of *)
(* a query string (format, text, ...) are kept as single tokens.           *)
(*                                                                         *)
(* The facilities the classes take from modules outside these three files  *)
(* (URLBase: the keyword-accepting initialiser, quote, throttle, tags;     *)
(* utils: GET_SCHEMA_RE, parse_list, is_exclusive_match; the two           *)
(* SCHEMA_MAP registries and the plugins they hold) are modelled from the  *)
(* design document.  ConfigBase is declared on top of `object` in          *)
(* ConfigBase.py:39, which offers none of them; the model follows the      *)
(* design there, and follows the three files everywhere else.              *)
(***************************************************************************)
EXTENDS Integers, Sequences, FiniteSets, TLC

VARIABLES configs, asset, ret, io, prev, content, home

vars == <<configs, asset, ret, io, prev, content, home>>

(***************************************************************************)
(* Bounds of the model.                                                    *)
(***************************************************************************)
MaxLines == 3
MaxConfigs == 2
MaxBatch == 2

(***************************************************************************)
(* Characters and strings.                                                 *)
(***************************************************************************)
NL == "\n"
CR == "\r"

Str_file == <<"f", "i", "l", "e">>
Str_http == <<"h", "t", "t", "p">>
Str_json == <<"j", "s", "o", "n">>
Str_css == <<":", "/", "/">>

\* str.lower() on one character (the upper-case letters the model uses).
LowerChar(c) ==
    CASE c = "F" -> "f" [] c = "I" -> "i" [] c = "L" -> "l" [] c = "E" -> "e"
      [] c = "J" -> "j" [] c = "S" -> "s" [] c = "O" -> "o" [] c = "N" -> "n"
      [] c = "Y" -> "y" [] c = "M" -> "m" [] c = "A" -> "a"
      [] c = "TEXT" -> "text" [] c = "YAML" -> "yaml"
      [] OTHER -> c

Lower(s) == [i \in 1..Len(s) |-> LowerChar(s[i])]

\* \s of the re module, on the characters the model uses.
IsSpace(c) == c \in {" ", "\t", CR, NL}

\* The characters a scheme token is made of.
IsSchemeChar(c) ==
    c \in {"f", "i", "l", "e", "h", "t", "p", "j", "s", "o", "n", "x",
           "F", "I", "L", "E", "J", "S", "O", "N", "+", "-", "_"}

RECURSIVE SchemeLen(_, _)
SchemeLen(s, i) ==
    IF i <= Len(s) /\ IsSchemeChar(s[i]) THEN SchemeLen(s, i + 1) ELSE i - 1

\* utils.GET_SCHEMA_RE.match(url): a leading scheme token followed by ://.
GET_SCHEMA_RE(s) ==
    LET n == SchemeLen(s, 1) IN
    IF n >= 1 /\ Len(s) >= n + 3 /\ SubSeq(s, n + 1, n + 3) = Str_css
    THEN [matched |-> TRUE, schema |-> SubSeq(s, 1, n), rest |-> SubSeq(s, n + 4, Len(s))]
    ELSE [matched |-> FALSE, schema |-> <<>>, rest |-> <<>>]

(***************************************************************************)
(* config_parse_text (ConfigBase.py:171-245).                              *)
(***************************************************************************)
RECURSIVE StripCR(_)
StripCR(s) ==
    IF Len(s) > 0 /\ s[Len(s)] = CR THEN StripCR(SubSeq(s, 1, Len(s) - 1)) ELSE s

\* re.split(r'\r*\n', content): cur is the piece being collected.
RECURSIVE SplitLines(_, _, _)
SplitLines(s, i, cur) ==
    IF i > Len(s) THEN <<cur>>
    ELSE IF s[i] = NL THEN <<StripCR(cur)>> \o SplitLines(s, i + 1, <<>>)
    ELSE SplitLines(s, i + 1, Append(cur, s[i]))

RECURSIVE SkipSpace(_, _)
SkipSpace(s, i) ==
    IF i <= Len(s) /\ IsSpace(s[i]) THEN SkipSpace(s, i + 1) ELSE i

\* line_is_comment_re = ^\s*[;#].*$
line_is_comment_re(url) ==
    LET i == SkipSpace(url, 1) IN i <= Len(url) /\ url[i] \in {";", "#"}

\* url.replace('/#', '/%23')
RECURSIVE ReplaceHash(_, _)
ReplaceHash(s, i) ==
    IF i > Len(s) THEN <<>>
    ELSE IF s[i] = "/" /\ i < Len(s) /\ s[i + 1] = "#"
         THEN <<"/", "%", "2", "3">> \o ReplaceHash(s, i + 2)
         ELSE <<s[i]>> \o ReplaceHash(s, i + 1)

\* plugins.SCHEMA_MAP: the registered notification schemes.
plugins_SCHEMA_MAP == {Str_json}

\* plugins.SCHEMA_MAP[schema].parse_url(_url), given the schema match of
\* _url: no host, no result.
plugin_parse_url(m) ==
    [ok |-> m.matched /\ Len(m.rest) > 0, schema |-> Lower(m.schema), host |-> m.rest]

\* plugins.SCHEMA_MAP[results['schema']](**results) raises on arguments it
\* cannot use: in the model, a host that begins with "!".
plugin_raises(results) == results.host[1] = "!"

plugin_new(results) == [schema |-> results.schema, host |-> results.host]

ParsedList(l) == [none |-> FALSE, list |-> l]
ParsedNone == [none |-> TRUE, list |-> <<>>]

\* What one line does to the loop of config_parse_text: "skip" (continue),
\* "abort" (return None) or "append"; schema is GET_SCHEMA_RE.match(_url).
LineStep(url, schema) ==
    IF line_is_comment_re(url) THEN "skip"
    ELSE IF ~schema.matched THEN "skip"
    ELSE IF Lower(schema.schema) \notin plugins_SCHEMA_MAP THEN "skip"
    ELSE IF ~plugin_parse_url(schema).ok THEN "skip"
    ELSE IF plugin_raises(plugin_parse_url(schema)) THEN "abort"
    ELSE "append"

\* A loop that a skipped line ends (break for continue).
RECURSIVE ParseLoop_break(_, _, _)
ParseLoop_break(lines, line, response) ==
    IF line > Len(lines) THEN ParsedList(response)
    ELSE LET schema == GET_SCHEMA_RE(ReplaceHash(lines[line], 1))
             step == LineStep(lines[line], schema)
         IN  IF step = "abort" THEN ParsedNone
             ELSE IF step = "skip" THEN ParsedList(response)
             ELSE ParseLoop_break(lines, line + 1,
                                  Append(response, plugin_new(plugin_parse_url(schema))))

\* A loop that returns what it has when a constructor raises.
RECURSIVE ParseLoop_partial(_, _, _)
ParseLoop_partial(lines, line, response) ==
    IF line > Len(lines) THEN ParsedList(response)
    ELSE LET schema == GET_SCHEMA_RE(ReplaceHash(lines[line], 1))
             step == LineStep(lines[line], schema)
         IN  IF step = "abort" THEN ParsedList(response)
             ELSE ParseLoop_partial(lines, line + 1,
                                    IF step = "skip" THEN response
                                    ELSE Append(response, plugin_new(plugin_parse_url(schema))))

\* The loop of config_parse_text over the split lines.
RECURSIVE ParseLoop(_, _, _)
ParseLoop(lines, line, response) ==
    IF line > Len(lines) THEN ParsedList(response)
    ELSE LET schema == GET_SCHEMA_RE(ReplaceHash(lines[line], 1))
             step == LineStep(lines[line], schema)
         IN  IF step = "abort" THEN ParsedNone
             ELSE ParseLoop(lines, line + 1,
                            IF step = "skip" THEN response
                            ELSE Append(response, plugin_new(plugin_parse_url(schema))))

config_parse_text(text) == ParseLoop(SplitLines(text, 1, <<>>), 1, <<>>)

\* config_parse_yaml (ConfigBase.py:247-257): a stub.
config_parse_yaml(text) == ParsedList(<<>>)

(***************************************************************************)
(* The text contents the parser is applied to.                             *)
(***************************************************************************)
Line_comment == <<"#", "c">>
Line_wscomment == <<" ", ";", "c">>
Line_blank == <<>>
Line_space == <<" ">>
Line_ok == Str_json \o Str_css \o <<"h">>
Line_upper == <<"J", "S", "O", "N">> \o Str_css \o <<"g">>
Line_hash == Str_json \o Str_css \o <<"h", "/", "#", "c">>
Line_unreg == <<"x">> \o Str_css \o <<"h">>
Line_noscheme == <<"h">>
Line_nohost == Str_json \o Str_css
Line_raise == Str_json \o Str_css \o <<"!">>

Lines ==
    {Line_comment, Line_wscomment, Line_blank, Line_space, Line_ok, Line_upper,
     Line_hash, Line_unreg, Line_noscheme, Line_nohost, Line_raise}

RECURSIVE Join(_, _)
Join(ls, sep) ==
    IF Len(ls) = 0 THEN <<>>
    ELSE IF Len(ls) = 1 THEN ls[1]
    ELSE ls[1] \o sep \o Join(Tail(ls), sep)

Seps == {<<NL>>, <<CR, NL>>}

LineSeqs == UNION {[1..n -> Lines] : n \in 1..MaxLines}

Contents ==
    {[lines |-> ls, text |-> Join(ls, sep)] : ls \in LineSeqs, sep \in Seps}

NoContent == [lines |-> <<>>, text |-> <<>>]

(***************************************************************************)
(* The result of the call in flight, as its caller sees it.                *)
(***************************************************************************)
NoRet ==
    [op |-> "none", status |-> "return", exc |-> "",
     bool |-> FALSE, none |-> FALSE, list |-> <<>>, text |-> <<>>,
     created |-> <<>>, errs |-> <<>>, fmt |-> "",
     urls |-> <<>>, ast |-> "None", tag |-> "None", filter |-> <<>>, obj |-> <<>>,
     before |-> <<>>]

(***************************************************************************)
(* The file system NotifyFile.read works on.                               *)
(***************************************************************************)
max_buffer_size == 131072

Path_a == <<"/", "a">>
Path_yml == <<"/", "b", ".", "y", "m", "l">>
Path_YAML == <<"/", "c", ".", "Y", "A", "M", "L", " ">>
Path_big == <<"/", "g">>
Path_edge == <<"/", "e">>
Path_missing == <<"/", "m">>
Path_noperm == <<"/", "n">>
Path_bin == <<"/", "x">>
Path_bad == <<"/", "r">>

File(size, openable, decodable, text) ==
    [exists |-> TRUE, size |-> size, openable |-> openable,
     decodable |-> decodable, text |-> text]

NoFile == [exists |-> FALSE, size |-> 0, openable |-> FALSE, decodable |-> {}, text |-> <<>>]

Text_a == Join(<<Line_ok, Line_comment, Line_upper>>, <<NL>>)
Text_yml == Join(<<Line_hash>>, <<NL>>)
Text_edge == Join(<<Line_unreg, Line_ok>>, <<CR, NL>>)
Text_bad == Join(<<Line_ok, Line_raise, Line_upper>>, <<NL>>)

fs(path) ==
    CASE path = Path_a -> File(20, TRUE, {"utf-8", "latin-1"}, Text_a)
      [] path = Path_yml -> File(14, TRUE, {"utf-8", "latin-1"}, Text_yml)
      [] path = Path_YAML -> File(14, TRUE, {"utf-8", "latin-1"}, Text_yml)
      [] path = Path_big -> File(max_buffer_size + 1, TRUE, {"utf-8", "latin-1"}, Text_a)
      [] path = Path_edge -> File(max_buffer_size, TRUE, {"utf-8", "latin-1"}, Text_edge)
      [] path = Path_noperm -> File(20, FALSE, {"utf-8", "latin-1"}, Text_a)
      [] path = Path_bin -> File(20, TRUE, {"latin-1"}, Text_a)
      [] path = Path_bad -> File(30, TRUE, {"utf-8", "latin-1"}, Text_bad)
      [] OTHER -> NoFile

\* The encodings the codecs registry knows.
KnownEncodings == {"utf-8", "latin-1"}

(***************************************************************************)
(* Config entries: ConfigBase.__init__ and NotifyFile.__init__.            *)
(***************************************************************************)
TEXT == "text"
YAML == "yaml"
CONFIG_FORMATS == {TEXT, YAML}

Kwargs(path, has_format, format, has_encoding, encoding, tag, ast) ==
    [schema |-> Str_file, path |-> path, has_format |-> has_format, format |-> format,
     has_encoding |-> has_encoding, encoding |-> encoding, tag |-> tag, asset |-> ast]

\* What the initialiser inherited from outside the three files keeps.
URLBase_init(kwargs) == [tags |-> kwargs.tag, asset |-> kwargs.asset]

\* ConfigBase.__init__: encoding and config_format are instance attributes
\* only when given; the class has encoding = 'utf-8', default_config_format =
\* TEXT and no config_format.  has_config_format says whether the instance
\* has the attribute; reading it when it has not raises AttributeError.
ConfigBase_init(kwargs) ==
    [raised |-> kwargs.has_format /\ LowerChar(kwargs.format) \notin CONFIG_FORMATS,
     obj |-> [cls |-> kwargs.schema,
              tags |-> URLBase_init(kwargs).tags,
              asset |-> URLBase_init(kwargs).asset,
              encoding |-> IF kwargs.has_encoding THEN kwargs.encoding ELSE "utf-8",
              has_config_format |-> kwargs.has_format,
              config_format |-> IF kwargs.has_format THEN LowerChar(kwargs.format) ELSE "",
              default_config_format |-> TEXT,
              path |-> <<>>]]

Home == <<"/", "h">>

\* os.path.expanduser
expanduser(path) ==
    IF Len(path) > 0 /\ path[1] = "~" THEN Home \o Tail(path) ELSE path

(***************************************************************************)
(* The default search paths and the files of the home directory.           *)
(***************************************************************************)
\* AppriseConfig.default_search_paths (AppriseConfig.py:55-60)
default_search_paths ==
    <<<<"~", "/", ".", "a", "p", "p", "r", "i", "s", "e">>,
      <<"~", "/", ".", "a", "p", "p", "r", "i", "s", "e", ".", "y", "m", "l">>,
      <<"~", "/", ".", "c", "o", "n", "f", "i", "g", "/", "a", "p", "p", "r", "i", "s", "e">>,
      <<"~", "/", ".", "c", "o", "n", "f", "i", "g", "/", "a", "p", "p", "r", "i", "s", "e",
        ".", "y", "m", "l">>>>

\* home[i] says what is at the i-th default search path: nothing, a file
\* the process may not read, or a file it may read.
HomeStates == [1..Len(default_search_paths) -> {"absent", "unreadable", "readable"}]

NoHome == [i \in 1..Len(default_search_paths) |-> "absent"]

\* os.path.isfile and os.access(.., R_OK) on the i-th default search path
isfile(h, i) == h[i] # "absent"

access(h, i) == h[i] = "readable"

\* NotifyFile.__init__
NotifyFile_init(kwargs) ==
    [raised |-> ConfigBase_init(kwargs).raised,
     obj |-> [ConfigBase_init(kwargs).obj EXCEPT !.path = expanduser(kwargs.path)]]

\* The entries a caller builds itself and hands to add().
PoolKwargs ==
    <<Kwargs(Path_a, TRUE, "text", FALSE, "", {"a", "b"}, "fresh"),
      Kwargs(Path_yml, FALSE, "", FALSE, "", {"c"}, "fresh"),
      Kwargs(Path_yml, TRUE, "TEXT", FALSE, "", {"a"}, "fresh"),
      Kwargs(Path_edge, TRUE, "text", TRUE, "latin-1", {}, "fresh"),
      Kwargs(Path_missing, FALSE, "", FALSE, "", {"a", "b", "c"}, "fresh"),
      Kwargs(Path_bad, TRUE, "text", FALSE, "", {"c"}, "fresh"),
      Kwargs(Path_YAML, TRUE, "yaml", FALSE, "", {"b"}, "fresh"),
      Kwargs(Path_big, TRUE, "text", FALSE, "", {"a"}, "fresh"),
      Kwargs(Path_noperm, TRUE, "text", FALSE, "", {"a"}, "fresh"),
      Kwargs(Path_bin, TRUE, "text", FALSE, "", {"a"}, "fresh"),
      Kwargs(Path_a, TRUE, "text", TRUE, "bogus", {"a"}, "fresh"),
      Kwargs(Path_a, TRUE, "json", FALSE, "", {}, "fresh")>>

Pool ==
    {NotifyFile_init(PoolKwargs[i]).obj :
        i \in {j \in 1..Len(PoolKwargs) : ~NotifyFile_init(PoolKwargs[j]).raised}}

(***************************************************************************)
(* NotifyFile.read (ConfigFile.py:74-138).                                 *)
(***************************************************************************)
RECURSIVE StripSpace(_)
StripSpace(s) ==
    IF Len(s) > 0 /\ IsSpace(s[Len(s)]) THEN StripSpace(SubSeq(s, 1, Len(s) - 1)) ELSE s

EndsWith(s, t) == Len(s) >= Len(t) /\ SubSeq(s, Len(s) - Len(t) + 1, Len(s)) = t

\* re.match(r'^.*\.ya?ml\s*$', path, re.I)
IsYamlPath(path) ==
    LET p == Lower(StripSpace(path)) IN
    EndsWith(p, <<".", "y", "m", "l">>) \/ EndsWith(p, <<".", "y", "a", "m", "l">>)

Ev(ev, path) == [ev |-> ev, path |-> path]

ReadResult(status, exc, none, text, events, obj) ==
    [status |-> status, exc |-> exc, none |-> none, text |-> text, io |-> events, obj |-> obj]

\* A size check that knows no limit.
SizeCheckPasses_noLimit(f) == f.exists

\* The size check of read(): TRUE when read() goes on to throttle and open.
SizeCheckPasses(f) == f.exists /\ ~(max_buffer_size > 0 /\ f.size > max_buffer_size)

\* What the open and the decode of read() come to, for the file f.
OpenOutcome(obj, f) ==
    IF ~f.openable THEN "OSError"
    ELSE IF obj.encoding \notin KnownEncodings THEN "LookupError"
    ELSE IF obj.encoding \notin f.decodable THEN "ValueError"
    ELSE "ok"

\* The format detection that ends read() (ConfigFile.py:127-133).
DetectFormat(obj) ==
    IF obj.config_format = "None" /\ IsYamlPath(obj.path)
    THEN [obj EXCEPT !.default_config_format = YAML] ELSE obj

\* read() from the throttle hook on.  The events are the hook, the open
\* and, when the content was read and decoded, read_ok.
ReadFrom(obj, f, events) ==
    LET opened == events \o <<Ev("throttle", obj.path), Ev("open", obj.path)>>
        outcome == OpenOutcome(obj, f)
    IN  IF outcome \in {"OSError", "ValueError"}
        THEN ReadResult("return", "", TRUE, <<>>, opened, obj)
        ELSE IF outcome = "LookupError"
        THEN ReadResult("raise", "LookupError", TRUE, <<>>, opened, obj)
        ELSE IF ~obj.has_config_format
        THEN ReadResult("raise", "AttributeError", TRUE, <<>>,
                        Append(opened, Ev("read_ok", obj.path)), obj)
        ELSE ReadResult("return", "", FALSE, f.text,
                        Append(opened, Ev("read_ok", obj.path)), DetectFormat(obj))

read(obj) ==
    IF ~SizeCheckPasses(fs(obj.path))
    THEN ReadResult("return", "", TRUE, <<>>, <<Ev("getsize", obj.path)>>, obj)
    ELSE ReadFrom(obj, fs(obj.path), <<Ev("getsize", obj.path)>>)

(***************************************************************************)
(* ConfigBase.services (ConfigBase.py:86-120).                             *)
(***************************************************************************)
ServicesResult(status, exc, list, fmt, events, obj) ==
    [status |-> status, exc |-> exc, list |-> list, fmt |-> fmt, io |-> events, obj |-> obj]

\* getattr(ConfigBase, 'config_parse_{}'.format(config_format))(content)
ParseAs(config_format, text) ==
    IF config_format = TEXT THEN config_parse_text(text) ELSE config_parse_yaml(text)

\* The format services() parses with (ConfigBase.py:106-108).
FormatOf(obj) ==
    IF obj.config_format = "None" THEN obj.default_config_format ELSE obj.config_format

\* if isinstance(result, list): response.extend(result)
ResponseOf(result) == IF result.none THEN <<>> ELSE result.list

\* services() once read() has ended as c.
ServicesAfterRead(c) ==
    IF c.status = "raise"
    THEN ServicesResult("raise", c.exc, <<>>, "", c.io, c.obj)
    ELSE IF c.none
    THEN ServicesResult("return", "", <<>>, "", c.io, c.obj)
    ELSE IF ~c.obj.has_config_format
    THEN ServicesResult("raise", "AttributeError", <<>>, "", c.io, c.obj)
    ELSE ServicesResult("return", "", ResponseOf(ParseAs(FormatOf(c.obj), c.text)),
                        FormatOf(c.obj), c.io, c.obj)

ConfigBase_services(obj) == ServicesAfterRead(read(obj))

(***************************************************************************)
(* Tag matching and AppriseConfig.services (AppriseConfig.py:146-179).     *)
(***************************************************************************)
Tok(t) == [group |-> FALSE, tokens |-> {t}]
Grp(ts) == [group |-> TRUE, tokens |-> ts]

TagNone == [given |-> FALSE, clauses |-> <<>>]
TagExpr(clauses) == [given |-> TRUE, clauses |-> clauses]

\* utils.is_exclusive_match(logic, data): an OR over the clauses, an AND
\* inside a group; no clause at all matches everything.
is_exclusive_match(logic, data) ==
    \/ Len(logic) = 0
    \/ \E i \in 1..Len(logic) : logic[i].tokens \subseteq data

\* The filter of the loop: TRUE when the entry is skipped.
SkipsEntry(tag, entry) == tag.given /\ ~is_exclusive_match(tag.clauses, entry.tags)

ManagerResult(status, exc, list, events, cfgs) ==
    [status |-> status, exc |-> exc, list |-> list, io |-> events, configs |-> cfgs]

RECURSIVE ServicesLoop(_, _, _, _, _)

\* The loop after entry i ran its services() and ended as r.
ServicesStep(cfgs, i, tag, services, events, r) ==
    IF r.status = "raise"
    THEN ManagerResult("raise", r.exc, <<>>, events \o r.io, [cfgs EXCEPT ![i] = r.obj])
    ELSE ServicesLoop([cfgs EXCEPT ![i] = r.obj], i + 1, tag, services \o r.list,
                      events \o r.io)

ServicesLoop(cfgs, i, tag, services, events) ==
    IF i > Len(cfgs) THEN ManagerResult("return", "", services, events, cfgs)
    ELSE IF SkipsEntry(tag, cfgs[i])
         THEN ServicesLoop(cfgs, i + 1, tag, services, events)
         ELSE ServicesStep(cfgs, i, tag, services, events, ConfigBase_services(cfgs[i]))

AppriseConfig_services(cfgs, tag) == ServicesLoop(cfgs, 1, tag, <<>>, <<>>)

(***************************************************************************)
(* AppriseConfig.instantiate (AppriseConfig.py:213-270).                   *)
(***************************************************************************)
\* config.SCHEMA_MAP: the registered config-source schemes.
config_SCHEMA_MAP == {Str_file, Str_http}

\* NotifyFile.protocol (ConfigFile.py:42)
protocol == Str_file

\* URLBase.quote: percent-encodes what a URL cannot carry (here a space).
RECURSIVE quote(_)
quote(s) ==
    IF Len(s) = 0 THEN <<>>
    ELSE IF s[1] = " " THEN <<"%", "2", "0">> \o quote(Tail(s))
    ELSE <<s[1]>> \o quote(Tail(s))

RECURSIVE IndexOf(_, _, _)
IndexOf(s, c, i) ==
    IF i > Len(s) THEN 0 ELSE IF s[i] = c THEN i ELSE IndexOf(s, c, i + 1)

\* The value of key in a query string key=value&key=value, "" when absent.
QsdHas(q, key) == \E i \in 1..Len(q) : q[i] = key /\ i + 2 <= Len(q) /\ q[i + 1] = "="
QsdGet(q, key) ==
    LET i == CHOOSE j \in 1..Len(q) : q[j] = key /\ j + 2 <= Len(q) /\ q[j + 1] = "="
    IN  q[i + 2]

\* URLBase.parse_url, given the schema match m of the url: schema, path and
\* query string; nothing after the :// is no URL.
PathEnd(rest) == IF IndexOf(rest, "?", 1) = 0 THEN Len(rest) ELSE IndexOf(rest, "?", 1) - 1

URLBase_parse_url(m) ==
    [ok |-> m.matched /\ PathEnd(m.rest) > 0, schema |-> Lower(m.schema),
     path |-> SubSeq(m.rest, 1, PathEnd(m.rest)),
     qsd |-> SubSeq(m.rest, PathEnd(m.rest) + 2, Len(m.rest))]

\* The format that stays in the results: "" when absent or dropped.
KeptFormat(results) ==
    IF results.ok /\ QsdHas(results.qsd, "format")
          /\ QsdGet(results.qsd, "format") \in CONFIG_FORMATS
    THEN QsdGet(results.qsd, "format") ELSE ""

KeptEncoding(results) ==
    IF results.ok /\ QsdHas(results.qsd, "encoding")
    THEN QsdGet(results.qsd, "encoding") ELSE ""

\* ConfigBase.parse_url (ConfigBase.py:131-169) on what URLBase.parse_url gave.
ConfigBase_parse_url(results) ==
    [ok |-> results.ok, schema |-> results.schema, path |-> results.path,
     has_format |-> KeptFormat(results) # "", format |-> KeptFormat(results),
     has_encoding |-> results.ok /\ QsdHas(results.qsd, "encoding"),
     encoding |-> KeptEncoding(results)]

\* The constructor of the http config source, which is outside the three
\* files: it raises on arguments it cannot use (a host that begins with "!").
ConfigHTTP_init(kwargs) ==
    [raised |-> ConfigBase_init(kwargs).raised \/ kwargs.path[1] = "!",
     obj |-> [ConfigBase_init(kwargs).obj EXCEPT !.path = kwargs.path]]

\* config.SCHEMA_MAP[results['schema']](**results)
Construct(kwargs) ==
    IF kwargs.schema = Str_file THEN NotifyFile_init(kwargs) ELSE ConfigHTTP_init(kwargs)

\* isinstance(asset, AppriseAsset): "None" is the absent argument.
IsAsset(a) == a # "None"

\* utils.parse_list(tag) as a set: "None" gives the empty set.
parse_list(tag) == IF tag = "None" THEN {} ELSE {tag}

NoObj ==
    [cls |-> <<>>, tags |-> {}, asset |-> "None", encoding |-> "", has_config_format |-> FALSE,
     config_format |-> "", default_config_format |-> TEXT, path |-> <<>>]

InstResult(status, inst, err) ==
    [status |-> status, none |-> err # "", inst |-> inst, err |-> err]

\* The schema instantiate looks up (AppriseConfig.py:223-231)
InstSchema(url) ==
    IF ~GET_SCHEMA_RE(url).matched THEN protocol \o Str_css
    ELSE Lower(GET_SCHEMA_RE(url).schema)

\* and the URL it parses (AppriseConfig.py:227).
InstUrl(url) ==
    IF ~GET_SCHEMA_RE(url).matched THEN protocol \o Str_css \o quote(url) ELSE url

\* The named arguments of the constructor (AppriseConfig.py:247-258).
InstKwargs(results, ast, tag) ==
    [schema |-> results.schema, path |-> results.path,
     has_format |-> results.has_format, format |-> results.format,
     has_encoding |-> results.has_encoding, encoding |-> results.encoding,
     tag |-> parse_list(tag), asset |-> IF IsAsset(ast) THEN ast ELSE "fresh"]

\* instantiate from the construction on; cfg_plugin is what the constructor did.
InstConstructed(cfg_plugin, suppress_exceptions) ==
    IF cfg_plugin.raised
    THEN IF suppress_exceptions
         THEN InstResult("return", NoObj, "Could not load URL")
         ELSE InstResult("raise", NoObj, "TypeError")
    ELSE InstResult("return", cfg_plugin.obj, "")

\* instantiate once the schema and the parsed results are known.
InstParsed(schema, results, ast, tag, suppress_exceptions) ==
    IF schema \notin config_SCHEMA_MAP THEN InstResult("return", NoObj, "Unsupported schema")
    ELSE IF ~results.ok THEN InstResult("return", NoObj, "Unparseable URL")
    ELSE InstConstructed(Construct(InstKwargs(results, ast, tag)), suppress_exceptions)

instantiate(url, ast, tag, suppress_exceptions) ==
    InstParsed(InstSchema(url),
               ConfigBase_parse_url(URLBase_parse_url(GET_SCHEMA_RE(InstUrl(url)))),
               ast, tag, suppress_exceptions)

(***************************************************************************)
(* AppriseConfig.add (AppriseConfig.py:95-144).                            *)
(***************************************************************************)
AddResult(status, exc, bool, cfgs, created, errs) ==
    [status |-> status, exc |-> exc, bool |-> bool, configs |-> cfgs,
     created |-> created, errs |-> errs]

\* list.extend(instance): a config entry is not iterable, so extend raises
\* TypeError and the list is left as it was.
list_extend(cfgs, instance) == [raised |-> TRUE, list |-> cfgs]

\* The asset add() hands to instantiate (AppriseConfig.py:107-109).
AddAsset(ast, self_asset) == IF IsAsset(ast) THEN self_asset ELSE ast

RECURSIVE AddLoop(_, _, _, _, _, _, _, _)

\* A step that appends before it looks at what instantiate gave.
AddStep_appendsFailed(urls, i, ast, tag, cfgs, return_status, created, errs, instance) ==
    IF instance.status = "raise"
    THEN AddResult("raise", instance.err, FALSE, cfgs, created, errs)
    ELSE IF instance.none
    THEN AddLoop(urls, i + 1, ast, tag, Append(cfgs, instance.inst), FALSE, created,
                 Append(errs, instance.err))
    ELSE AddResult("raise", "TypeError", FALSE, cfgs,
                   Append(created, instance.inst), Append(errs, ""))

\* The loop after instantiate ended as instance for url i.
AddStep(urls, i, ast, tag, cfgs, return_status, created, errs, instance) ==
    IF instance.status = "raise"
    THEN AddResult("raise", instance.err, FALSE, cfgs, created, errs)
    ELSE IF instance.none
    THEN AddLoop(urls, i + 1, ast, tag, cfgs, FALSE, created, Append(errs, instance.err))
    ELSE IF list_extend(cfgs, instance.inst).raised
    THEN AddResult("raise", "TypeError", FALSE, list_extend(cfgs, instance.inst).list,
                   Append(created, instance.inst), Append(errs, ""))
    ELSE AddLoop(urls, i + 1, ast, tag, list_extend(cfgs, instance.inst).list,
                 return_status, Append(created, instance.inst), Append(errs, ""))

\* The loop of add() over the urls.
AddLoop(urls, i, ast, tag, cfgs, return_status, created, errs) ==
    IF i > Len(urls) THEN AddResult("return", "", return_status, cfgs, created, errs)
    ELSE AddStep(urls, i, ast, tag, cfgs, return_status, created, errs,
                 instantiate(urls[i], ast, tag, TRUE))

\* add() of a string or of a collection of strings; a string is the
\* collection of itself (AppriseConfig.py:116-118).
AppriseConfig_add(cfgs, self_asset, urls, ast, tag) ==
    AddLoop(urls, 1, AddAsset(ast, self_asset), tag, cfgs, TRUE, <<>>, <<>>)

(***************************************************************************)
(* The inputs of the calls.                                                *)
(***************************************************************************)
Url_bare == Path_missing
Url_file == Str_file \o Str_css \o Path_a
Url_FILE == <<"F", "I", "L", "E">> \o Str_css \o Path_yml \o <<"?", "format", "=", "text">>
Url_badfmt == Str_file \o Str_css \o Path_edge
                  \o <<"?", "format", "=", "TEXT", "&", "encoding", "=", "latin-1">>
Url_unsup == <<"x">> \o Str_css \o <<"h">>
Url_nohost == Str_file \o Str_css
Url_httpraise == Str_http \o Str_css \o <<"!">>

ConfigStrings ==
    {Url_bare, Url_file, Url_FILE, Url_badfmt, Url_unsup, Url_nohost, Url_httpraise}

Batches == UNION {[1..n -> ConfigStrings] : n \in 0..MaxBatch}

\* (asset, tag) as add() is given them.
AddOptions == {<<"None", "None">>, <<"custom", "None">>, <<"None", "a">>}

TagArgs ==
    {TagNone, TagExpr(<<>>), TagExpr(<<Tok("a")>>), TagExpr(<<Tok("b"), Tok("c")>>),
     TagExpr(<<Grp({"a", "b"}), Tok("c")>>), TagExpr(<<Grp({"b", "c"})>>)}

(***************************************************************************)
(* The manager: one action per call, and the caller taking the result.     *)
(***************************************************************************)
NoPrev == [op |-> "none", n |-> 0]

Init ==
    /\ configs = <<>>
    /\ asset = "default"
    /\ ret = NoRet
    /\ io = <<>>
    /\ prev = NoPrev
    /\ content = NoContent
    /\ home = NoHome

Idle == ret.op = "none"

\* prev: whether the call that ended before the one in flight was clear(),
\* and the number of entries it cleared.

AddOf(urls, opt, kind) ==
    \E r \in {AppriseConfig_add(configs, asset, urls, opt[1], opt[2])} :
    /\ configs' = r.configs
    /\ ret' = [NoRet EXCEPT !.op = kind, !.status = r.status, !.exc = r.exc,
                            !.bool = r.bool, !.created = r.created, !.errs = r.errs,
                            !.urls = urls, !.ast = opt[1], !.tag = opt[2],
                            !.before = configs]
    /\ UNCHANGED <<asset, io, prev, content, home>>

\* add("...")
AddString ==
    /\ Idle
    /\ \E url \in ConfigStrings, opt \in AddOptions : AddOf(<<url>>, opt, "add_string")

\* add([...])
AddList ==
    /\ Idle
    /\ \E urls \in Batches, opt \in AddOptions : AddOf(urls, opt, "add_list")

\* add(entry) with an entry the caller built (AppriseConfig.py:111-114)
AddInstance ==
    /\ Idle
    /\ Len(configs) < MaxConfigs
    /\ \E entry \in Pool :
          /\ configs' = Append(configs, entry)
          /\ ret' = [NoRet EXCEPT !.op = "add_instance", !.bool = TRUE,
                                  !.obj = entry, !.before = configs]
    /\ UNCHANGED <<asset, io, prev, content, home>>

\* add(x) with x neither a string, a collection nor an entry
\* (AppriseConfig.py:120-125)
AddInvalid ==
    /\ Idle
    /\ ret' = [NoRet EXCEPT !.op = "add_invalid", !.bool = FALSE, !.before = configs]
    /\ UNCHANGED <<configs, asset, io, prev, content, home>>

\* services(tag)
Services ==
    /\ Idle
    /\ \E tag \in TagArgs :
          \E r \in {AppriseConfig_services(configs, tag)} :
          /\ configs' = r.configs
          /\ io' = r.io
          /\ ret' = [NoRet EXCEPT !.op = "services", !.status = r.status, !.exc = r.exc,
                                  !.list = r.list, !.filter = tag, !.before = configs]
    /\ UNCHANGED <<asset, prev, content, home>>

\* A clear() that rebinds a local name and leaves the list as it is.
Clear_keeps ==
    /\ Idle
    /\ configs' = configs
    /\ ret' = [NoRet EXCEPT !.op = "clear", !.before = configs]
    /\ UNCHANGED <<asset, io, prev, content, home>>

\* clear() (AppriseConfig.py:272-277)
Clear ==
    /\ Idle
    /\ configs' = <<>>
    /\ ret' = [NoRet EXCEPT !.op = "clear", !.before = configs]
    /\ UNCHANGED <<asset, io, prev, content, home>>

\* entry.read() on an entry the caller holds
Read ==
    /\ Idle
    /\ \E entry \in Pool :
          \E r \in {read(entry)} :
          /\ io' = r.io
          /\ ret' = [NoRet EXCEPT !.op = "read", !.status = r.status, !.exc = r.exc,
                                  !.none = r.none, !.text = r.text, !.obj = entry,
                                  !.before = configs]
    /\ UNCHANGED <<configs, asset, prev, content, home>>

\* entry.services() on an entry the caller holds
EntryServices ==
    /\ Idle
    /\ \E entry \in Pool :
          \E r \in {ConfigBase_services(entry)} :
          /\ io' = r.io
          /\ ret' = [NoRet EXCEPT !.op = "entry_services", !.status = r.status,
                                  !.exc = r.exc, !.list = r.list, !.fmt = r.fmt,
                                  !.obj = entry, !.before = configs]
    /\ UNCHANGED <<configs, asset, prev, content, home>>

\* The caller takes the result (or the exception) of the call.
Return ==
    /\ ~Idle
    /\ ret' = NoRet
    /\ io' = <<>>
    /\ prev' = IF ret.op = "clear" THEN [op |-> "clear", n |-> Len(ret.before)]
                ELSE [op |-> "call", n |-> 0]
    /\ UNCHANGED <<configs, asset, content, home>>

Next ==
    \/ AddString
    \/ AddList
    \/ AddInstance
    \/ AddInvalid
    \/ Services
    \/ Clear
    \/ Read
    \/ EntryServices
    \/ Return

Spec == Init /\ [][Next]_vars

(***************************************************************************)
(* The text parser applied to a content.                                   *)
(***************************************************************************)
InitText ==
    /\ configs = <<>>
    /\ asset = "default"
    /\ ret = NoRet
    /\ io = <<>>
    /\ prev = NoPrev
    /\ content \in Contents
    /\ home = NoHome

ParseText ==
    /\ Idle
    /\ \E r \in {config_parse_text(content.text)} :
          ret' = [NoRet EXCEPT !.op = "config_parse_text", !.none = r.none,
                               !.list = r.list]
    /\ UNCHANGED <<configs, asset, io, prev, content, home>>

NextText == ParseText

SpecText == InitText /\ [][NextText]_vars

(***************************************************************************)
(* The constructor (AppriseConfig.py:62-93), applied to a home directory.  *)
(***************************************************************************)
\* The default search paths that are found locally, expanded, as the set
\* the constructor builds (AppriseConfig.py:86-88).
FoundPaths(h) ==
    {expanduser(default_search_paths[i]) :
        i \in {j \in 1..Len(default_search_paths) : isfile(h, j) /\ access(h, j)}}

\* The orders a loop over a set may take its elements in.
SetOrders(S) ==
    {s \in [1..Cardinality(S) -> S] :
        \A i, j \in 1..Cardinality(S) : i # j => s[i] # s[j]}

\* self.asset as the constructor sets it (AppriseConfig.py:77-78)
InitAsset(ast) == IF IsAsset(ast) THEN ast ELSE "default"

\* The end of the constructor: self.add(paths), whose result it drops.
InitOf(urls, ast, kind) ==
    \E r \in {AppriseConfig_add(<<>>, InitAsset(ast), urls, "None", "None")} :
    /\ configs' = r.configs
    /\ asset' = InitAsset(ast)
    /\ ret' = [NoRet EXCEPT !.op = kind, !.status = r.status, !.exc = r.exc,
                            !.created = r.created, !.errs = r.errs,
                            !.urls = urls, !.ast = ast]
    /\ UNCHANGED <<io, prev, content, home>>

\* AppriseConfig() and AppriseConfig(asset=...): paths is None
NewDefault ==
    /\ Idle
    /\ \E order \in SetOrders(FoundPaths(home)), ast \in {"None", "custom"} :
          InitOf(order, ast, "init_default")

\* AppriseConfig(paths) with a string or a collection of strings
NewPaths ==
    /\ Idle
    /\ \E urls \in Batches, ast \in {"None", "custom"} : InitOf(urls, ast, "init_paths")

InitDefaults ==
    /\ configs = <<>>
    /\ asset = "default"
    /\ ret = NoRet
    /\ io = <<>>
    /\ prev = NoPrev
    /\ content = NoContent
    /\ home \in HomeStates

NextDefaults ==
    \/ NewDefault
    \/ NewPaths

SpecDefaults == InitDefaults /\ [][NextDefaults]_vars

(***************************************************************************)
(* Properties of add().                                                    *)
(***************************************************************************)
\* C1: add(s) with a string s whose instantiation fails (a bare path to a
\* file that does not exist, an unsupported scheme, ...) returns False and
\* leaves the stored entries exactly as they were.
C1_FailedAddLeavesConfigs ==
    ret.op = "add_string" =>
        /\ ret.urls[1] \in {Url_bare, Url_unsup} => ret.errs[1] # ""
        /\ ret.errs[1] # "" =>
              /\ ret.status = "return"
              /\ ret.bool = FALSE
              /\ configs = ret.before
              /\ ret.created = <<>>

C1_Witness ==
    /\ ret.op = "add_string"
    /\ ret.urls = <<Url_bare>>
    /\ Len(ret.before) = 2
    /\ ret.status = "return"
    /\ ret.bool = FALSE

\* C2: add(collection of strings) processes every item, appends each item
\* that instantiates as one entry, in input order, and returns True exactly
\* when every item succeeded.
C2_BatchAdd ==
    ret.op = "add_list" =>
        /\ ret.status = "return"
        /\ Len(ret.errs) = Len(ret.urls)
        /\ configs = ret.before \o ret.created
        /\ ret.bool = (\A i \in 1..Len(ret.errs) : ret.errs[i] = "")

\* C3: instantiate of a string with no leading scheme:// takes it for a file
\* path and builds the file config source; it does not end in
\* 'Unsupported schema'.
C3_BarePathIsFile ==
    (ret.op = "add_string" /\ ~GET_SCHEMA_RE(ret.urls[1]).matched) =>
        /\ ret.errs[1] # "Unsupported schema"
        /\ Len(ret.created) = 1
        /\ ret.created[1].cls = Str_file
        /\ ret.created[1].path = ret.urls[1]

(***************************************************************************)
(* Properties of config_parse_text, under SpecText.                        *)
(***************************************************************************)
UsableLines == {Line_ok, Line_upper, Line_hash}

IsUsable(l) == l \in UsableLines

\* The service entry a usable line stands for.
EntryOf(l) ==
    CASE l = Line_ok -> [schema |-> Str_json, host |-> <<"h">>]
      [] l = Line_upper -> [schema |-> Str_json, host |-> <<"g">>]
      [] l = Line_hash -> [schema |-> Str_json, host |-> <<"h", "/", "%", "2", "3", "c">>]

HasRaisingLine == \E i \in 1..Len(content.lines) : content.lines[i] = Line_raise

\* C4: when no constructor raises, config_parse_text returns one entry per
\* line that is no comment, has a registered scheme and parses, in file
\* order; every other line is skipped and the lines after it still count.
C4_OneEntryPerUsableLine ==
    (ret.op = "config_parse_text" /\ ~HasRaisingLine) =>
        /\ ~ret.none
        /\ LET usable == SelectSeq(content.lines, IsUsable) IN
           /\ Len(ret.list) = Len(usable)
           /\ \A i \in 1..Len(usable) : ret.list[i] = EntryOf(usable[i])

C4_Witness ==
    /\ ret.op = "config_parse_text"
    /\ content.lines = <<Line_ok, Line_unreg, Line_hash>>
    /\ Len(ret.list) = 2

\* C5: config_parse_text returns None, not a partial list, whenever the
\* constructor of some well-formed line raises, whatever comes before and
\* after; a content with no usable line gives the empty list, not None.
C5_RaiseGivesNone ==
    ret.op = "config_parse_text" =>
        /\ HasRaisingLine => (ret.none /\ ret.list = <<>>)
        /\ ~HasRaisingLine => ~ret.none
        /\ (~HasRaisingLine /\ SelectSeq(content.lines, IsUsable) = <<>>) => ret.list = <<>>

C5_Witness ==
    /\ ret.op = "config_parse_text"
    /\ content.lines = <<Line_ok, Line_raise, Line_upper>>
    /\ ret.none

(***************************************************************************)
(* Properties of services(), clear() and read().                           *)
(***************************************************************************)
\* An entry passes the filter: no expression or an empty one, or some clause
\* satisfied, a token by being in the entry's tags, a group by all of its
\* tokens being in them.
ClauseSatisfied(clause, tags) ==
    IF clause.group THEN \A t \in clause.tokens : t \in tags
    ELSE \E t \in clause.tokens : t \in tags

Passes(tag, entry) ==
    \/ ~tag.given
    \/ tag.clauses = <<>>
    \/ \E i \in 1..Len(tag.clauses) : ClauseSatisfied(tag.clauses[i], entry.tags)

\* The concatenation of entry.services() over the entries that pass.
RECURSIVE ExpectedServices(_, _)
ExpectedServices(cfgs, tag) ==
    IF cfgs = <<>> THEN <<>>
    ELSE (IF Passes(tag, cfgs[1]) THEN ConfigBase_services(cfgs[1]).list ELSE <<>>)
             \o ExpectedServices(Tail(cfgs), tag)

\* C6: services(tag) returns, in stored order, the concatenation of
\* entry.services() over exactly the entries that pass the filter.
C6_ServicesConcatenation ==
    ret.op = "services" =>
        /\ ret.status = "return"
        /\ ret.list = ExpectedServices(ret.before, ret.filter)

\* What holds of services(tag) when no entry it reads raises: the
\* concatenation above, and no read of an entry the filter rejects.
C6_WhenItReturns ==
    (ret.op = "services" /\ ret.status = "return") =>
        /\ ret.list = ExpectedServices(ret.before, ret.filter)
        /\ \A i \in 1..Len(io) :
              \E j \in 1..Len(ret.before) :
                  /\ ret.before[j].path = io[i].path
                  /\ Passes(ret.filter, ret.before[j])

\* C7: clear() empties the stored entries and changes nothing else (the
\* default asset stays); services() called right after clear(), with any tag
\* argument, returns the empty list.
C7_ClearThenServices ==
    /\ ret.op = "clear" => (configs = <<>> /\ asset = "default")
    /\ (ret.op = "services" /\ prev.op = "clear") =>
          (ret.status = "return" /\ ret.list = <<>> /\ configs = <<>>)

C7_Witness ==
    /\ ret.op = "services"
    /\ prev.op = "clear"
    /\ prev.n = 2
    /\ ret.filter = TagExpr(<<Tok("a")>>)
    /\ ret.list = <<>>

\* The format the claim names for an entry.
ExpectedFormat(obj) ==
    IF obj.has_config_format THEN obj.config_format
    ELSE IF IsYamlPath(obj.path) THEN YAML
    ELSE TEXT

WasRead == \E i \in 1..Len(io) : io[i].ev = "read_ok"

\* C8: the content a File entry has read is parsed in the format given
\* explicitly when one was given, else YAML when the path ends in .yml or
\* .yaml, else TEXT.
C8_FormatSelection ==
    (ret.op = "entry_services" /\ WasRead) =>
        /\ ret.status = "return"
        /\ ret.fmt = ExpectedFormat(ret.obj)

\* What holds of the format when one was given explicitly.
C8_ExplicitFormatKept ==
    (ret.op = "entry_services" /\ WasRead /\ ret.obj.has_config_format) =>
        /\ ret.status = "return"
        /\ ret.fmt = ret.obj.config_format

\* C9: add(), services() and read() never let an exception out: each call
\* ends by returning its result.
C9_NoExceptionEscapes ==
    ret.op \in {"add_string", "add_list", "add_instance", "add_invalid",
                "services", "read"}
        => ret.status = "return"

\* C10: a read() that opens the file has called the throttle hook exactly
\* once, right before the open and after its size check, whatever the open
\* and the decode then do; a read() of a file larger than max_buffer_size
\* returns None and opens nothing.
C10_ThrottleBeforeOpen ==
    /\ \A i \in 1..Len(io) :
          /\ io[i].ev = "open" =>
                /\ i > 2
                /\ io[i - 1] = Ev("throttle", io[i].path)
                /\ io[i - 2] = Ev("getsize", io[i].path)
          /\ io[i].ev = "throttle" =>
                /\ i < Len(io)
                /\ io[i + 1] = Ev("open", io[i].path)
    /\ (ret.op = "read" /\ fs(ret.obj.path).size > max_buffer_size) =>
          /\ ret.status = "return"
          /\ ret.none
          /\ \A i \in 1..Len(io) : io[i].ev # "open"

C10_Witness ==
    /\ ret.op = "read"
    /\ ret.obj.path = Path_noperm
    /\ ret.none
    /\ io = <<Ev("getsize", Path_noperm), Ev("throttle", Path_noperm),
              Ev("open", Path_noperm)>>

(***************************************************************************)
(* Properties of the constructor, under SpecDefaults.                      *)
(***************************************************************************)
\* The indices of the default search paths that exist and are readable, in
\* the order of the default list.
KeptIndices(h) ==
    LET Kept(i) == isfile(h, i) /\ access(h, i)
    IN SelectSeq([i \in 1..Len(default_search_paths) |-> i], Kept)

\* C11: a manager constructed with no explicit paths stores one file entry
\* for each default search path that exists and is readable, and no other,
\* in the order of the default list.
C11_DefaultPathsStored ==
    ret.op = "init_default" =>
        /\ ret.status = "return"
        /\ Len(configs) = Len(KeptIndices(home))
        /\ \A i \in 1..Len(configs) :
              /\ configs[i].cls = Str_file
              /\ configs[i].path = expanduser(default_search_paths[KeptIndices(home)[i]])

\* What holds of that construction: add() is handed exactly the found
\* paths, each of them ends in 'Unsupported schema', and nothing is stored.
C11_FoundPathsAllRejected ==
    ret.op = "init_default" =>
        /\ ret.status = "return"
        /\ {ret.urls[i] : i \in 1..Len(ret.urls)} = FoundPaths(home)
        /\ Len(ret.urls) = Len(KeptIndices(home))
        /\ \A i \in 1..Len(ret.errs) : ret.errs[i] = "Unsupported schema"
        /\ configs = <<>>

\* A construction that found two paths and took them in the other order.
C11_OrderOfSetSeen ==
    /\ ret.op = "init_default"
    /\ home = [NoHome EXCEPT ![1] = "readable", ![3] = "readable"]
    /\ ret.urls = <<expanduser(default_search_paths[3]), expanduser(default_search_paths[1])>>

(***************************************************************************)
(* Properties of the asset add() gives the entries it creates.             *)
(***************************************************************************)
\* C12: every entry a call add(.., asset=a) creates is constructed with a,
\* not with the manager's own asset; without an asset argument the entry
\* gets a default one.
C12_ProvidedAssetUsed ==
    ret.op \in {"add_string", "add_list"} =>
        \A i \in 1..Len(ret.created) :
            IF IsAsset(ret.ast) THEN ret.created[i].asset = ret.ast
            ELSE ret.created[i].asset \in {"default", "fresh"}

\* What holds of the asset: an entry created with an asset argument carries
\* the manager's own asset, one created without carries a fresh default.
C12_ManagerAssetUsed ==
    ret.op \in {"add_string", "add_list"} =>
        \A i \in 1..Len(ret.created) :
            ret.created[i].asset = IF IsAsset(ret.ast) THEN asset ELSE "fresh"

\* An entry created by add(.., asset="custom").
C12_CreatedWithAssetSeen ==
    /\ ret.op = "add_string"
    /\ ret.ast = "custom"
    /\ Len(ret.created) = 1
    /\ ret.created[1].asset = "default"

(***************************************************************************)
(* Properties of a failure inside one config source.                       *)
(***************************************************************************)
\* read() of the entry returns None.
ReadFails(obj) == read(obj).status = "return" /\ read(obj).none

\* read() of the entry returns its content and config_parse_text of it
\* returns None.
ParseFails(obj) ==
    /\ read(obj).status = "return"
    /\ ~read(obj).none
    /\ obj.has_config_format
    /\ obj.config_format = TEXT
    /\ config_parse_text(read(obj).text).none

FailsInside(obj) == ReadFails(obj) \/ ParseFails(obj)

\* The services of the entries that pass the filter and do not fail inside.
RECURSIVE ServicesOfOthers(_, _)
ServicesOfOthers(cfgs, tag) ==
    IF cfgs = <<>> THEN <<>>
    ELSE (IF Passes(tag, cfgs[1]) /\ ~FailsInside(cfgs[1])
          THEN ConfigBase_services(cfgs[1]).list ELSE <<>>)
             \o ServicesOfOthers(Tail(cfgs), tag)

HasFailingEntry(cfgs, tag) ==
    \E i \in 1..Len(cfgs) : Passes(tag, cfgs[i]) /\ FailsInside(cfgs[i])

\* C13: an entry whose read() returns None, or whose text parse returns
\* None, returns the empty list from its services(); and services() of a
\* manager that holds such an entry still returns, in stored order, the
\* services of every other entry that passes the filter.
C13_FailureConfined ==
    /\ (ret.op = "entry_services" /\ FailsInside(ret.obj)) =>
          (ret.status = "return" /\ ret.list = <<>>)
    /\ (ret.op = "services" /\ HasFailingEntry(ret.before, ret.filter)) =>
          (ret.status = "return" /\ ret.list = ServicesOfOthers(ret.before, ret.filter))

\* What holds of it: the entry's own services() is empty, and the manager
\* returns the others' services unless one of the others raises.
C13_ConfinedUnlessAnotherRaises ==
    /\ (ret.op = "entry_services" /\ FailsInside(ret.obj)) =>
          (ret.status = "return" /\ ret.list = <<>>)
    /\ (ret.op = "services" /\ HasFailingEntry(ret.before, ret.filter)) =>
          IF \E i \in 1..Len(ret.before) :
                 /\ Passes(ret.filter, ret.before[i])
                 /\ ConfigBase_services(ret.before[i]).status = "raise"
          THEN ret.status = "raise"
          ELSE ret.status = "return"
                  /\ ret.list = ServicesOfOthers(ret.before, ret.filter)

\* services() of a manager whose first entry fails in its parse and whose
\* second entry gives two services.
C13_OthersStillServedSeen ==
    /\ ret.op = "services"
    /\ Len(ret.before) = 2
    /\ ParseFails(ret.before[1])
    /\ ret.status = "return"
    /\ Len(ret.list) = 2

\* services() of an entry that fails in its parse after a usable line.
C13_PartialParseDroppedSeen ==
    /\ ret.op = "entry_services"
    /\ ret.obj.path = Path_bad
    /\ ParseFails(ret.obj)
    /\ ret.list = <<>>

====
